---- MODULE Spec2Model ----
(***************************************************************************)
(* Model of the HTTP multiplexer (mux) of the gateway, its IP filter, and  *)
(* the snapshot reload path.                                               *)
(*                                                                         *)
(* Strings whose structure matters (request paths, matched with            *)
(* strings.HasPrefix, and addresses, searched with strings.Contains) are   *)
(* sequences of one-character strings.  Hosts, methods, header values and  *)
(* backend names are compared only for equality and are TLA+ strings.  Go pointers that may be nil are records *)
(* with a field nil.  The standard library's regexp, net.ParseIP and       *)
(* net.ParseCIDR are given by their values on the finite universe of       *)
(* patterns and inputs the configurations below use.                       *)
(***************************************************************************)
EXTENDS Integers, Sequences, FiniteSets, TLC

(***************************************************************************)
(* Bounds                                                                  *)
(***************************************************************************)
\* number of reloadRules calls explored (snapshots allocated after newMux)
MaxReloads == 2
\* longest chain of filters given to IPFilters.Allow on its own
MaxChain == 3
\* most addresses in an X-Forwarded-For value given to appendXForwardedFor on its own
MaxHops == 2
\* most full buffers (bodyFlushBuffSize bytes) of a response body
MaxChunks == 2
\* most flush functions registered with OnFlushBody
MaxFuncs == 2
\* rules of a configuration, and paths of a rule, when the filter chains are built
\* on their own
MaxBranch == 2

(***************************************************************************)
(* The string universe                                                     *)
(***************************************************************************)
PathA  == <<"/", "a">>
PathAB == <<"/", "a", "/", "b">>
NoPath == <<>>

Hosts   == {"a.com", "b.com"}
Methods == {"GET", "POST"}
Paths   == {PathA, PathAB}
\* addresses and networks, as the strings the configuration and RealIP() give
IP10001 == <<"1", "0", ".", "0", ".", "0", ".", "1">>
IP10002 == <<"1", "0", ".", "0", ".", "0", ".", "2">>
IP192   == <<"1", "9", "2", ".", "1", "6", "8", ".", "1", ".", "1">>
Net10   == <<"1", "0", ".", "0", ".", "0", ".", "0", "/", "8">>
Net192  == <<"1", "9", "2", ".", "1", "6", "8", ".", "0", ".", "0", "/", "1", "6">>
RealIPs == {IP10001, IP10002, IP192}
\* values of the request header X-Ver ("" = header not sent)
HeaderValues == {"", "v2"}

HasPrefix(s, prefix) ==
    /\ Len(prefix) <= Len(s)
    /\ SubSeq(s, 1, Len(prefix)) = prefix

\* regexp.Compile: the patterns of the configurations that compile
RegexpCompiles(pattern) == pattern \in {"^/a/(.+)$", "^b\\."}

\* (*Regexp).MatchString on request paths
PathREMatchString(pattern, s) ==
    CASE pattern = "^/a/(.+)$" -> s = PathAB
      [] OTHER -> FALSE

\* (*Regexp).MatchString on request hosts
HostREMatchString(pattern, s) ==
    CASE pattern = "^b\\." -> s = "b.com"
      [] OTHER -> FALSE

\* a compiled regexp pointer: nil, or the pattern it was compiled from
NilRE == [nil |-> TRUE, pattern |-> ""]
CompiledRE(pattern) == [nil |-> FALSE, pattern |-> pattern]

(***************************************************************************)
(* pkg/util/ipfilter                                                       *)
(*                                                                         *)
(* Addresses are 4-bit numbers: net.ParseIP maps the dotted strings of the *)
(* universe to them (-1 stands for a nil net.IP), and a network is a base  *)
(* address with the number of leading one bits of its mask.                *)
(***************************************************************************)
NilIP == -1

ParseIP(s) ==
    CASE s = IP10001 -> 1
      [] s = IP10002 -> 2
      [] s = IP192   -> 9
      [] OTHER       -> NilIP

Pow2(n) == CASE n = 0 -> 1 [] n = 1 -> 2 [] n = 2 -> 4 [] n = 3 -> 8 [] OTHER -> 16

IPNet(base, ones) == [base |-> base, ones |-> ones]

\* net.ParseCIDR on the CIDR strings of the configurations
ParseCIDR(s) ==
    CASE s = Net10  -> IPNet(0, 1)
      [] s = Net192 -> IPNet(8, 1)
      [] OTHER      -> IPNet(0, 0)

\* (net.IPNet).Contains
NetContains(n, ip) == (ip \div Pow2(4 - n.ones)) = (n.base \div Pow2(4 - n.ones))

\* rangerFromIPCIDRs: a bare IP becomes a single-address network
rangerFromIPCIDRs(ipcidrs) ==
    { IF ParseIP(c) # NilIP THEN IPNet(ParseIP(c), 4) ELSE ParseCIDR(c) : c \in ipcidrs }

\* cidranger.Ranger.Contains
RangerContains(ranger, ip) == \E n \in ranger : NetContains(n, ip)

\* *ipfilter.Spec, nil or not
NilFilterSpec == [nil |-> TRUE, BlockByDefault |-> FALSE, AllowIPs |-> {}, BlockIPs |-> {}]
FilterSpec(blockByDefault, allowIPs, blockIPs) ==
    [nil |-> FALSE, BlockByDefault |-> blockByDefault, AllowIPs |-> allowIPs, BlockIPs |-> blockIPs]

\* ipfilter.New
IPFilterNew(spec) ==
    [nil |-> FALSE, spec |-> spec,
     allowRanger |-> rangerFromIPCIDRs(spec.AllowIPs),
     blockRanger |-> rangerFromIPCIDRs(spec.BlockIPs)]

NilIPFilter == [nil |-> TRUE, spec |-> NilFilterSpec, allowRanger |-> {}, blockRanger |-> {}]

\* IPFilter.Allow in which an address in both ranges is blocked
IPFilterAllowBlockWins(f, ipstr, allowErr, blockErr) ==
    LET defaultResult == ~f.spec.BlockByDefault
        ip      == ParseIP(ipstr)
        allowed == RangerContains(f.allowRanger, ip)
        blocked == RangerContains(f.blockRanger, ip)
    IN  IF ip = NilIP THEN defaultResult
        ELSE IF allowErr THEN defaultResult
        ELSE IF blockErr THEN defaultResult
        ELSE CASE blocked -> FALSE
               [] allowed -> TRUE
               [] OTHER   -> defaultResult

\* IPFilter.Allow; allowErr, blockErr: f.allowRanger.Contains, f.blockRanger.Contains
\* return an error
IPFilterAllowOn(f, ipstr, allowErr, blockErr) ==
    LET defaultResult == ~f.spec.BlockByDefault
        ip      == ParseIP(ipstr)
        allowed == RangerContains(f.allowRanger, ip)
        blocked == RangerContains(f.blockRanger, ip)
    IN  IF ip = NilIP THEN defaultResult
        ELSE IF allowErr THEN defaultResult
        ELSE IF blockErr THEN defaultResult
        ELSE CASE allowed /\ blocked -> defaultResult
               [] allowed            -> TRUE
               [] blocked            -> FALSE
               [] OTHER              -> defaultResult

\* IPFilter.Allow on the rangers ipfilter.New builds, whose lookups of a parsed
\* address return no error
IPFilterAllow(f, ipstr) == IPFilterAllowOn(f, ipstr, FALSE, FALSE)

\* *ipfilter.IPFilters, nil or not
NilChain == [nil |-> TRUE, filters |-> <<>>]
NewIPfilters(filters) == [nil |-> FALSE, filters |-> filters]

\* IPFilters.Allow that stops at the first filter that allows
IPFiltersAllowAny(chain, ipstr) ==
    \E i \in 1..Len(chain.filters) : IPFilterAllow(chain.filters[i], ipstr)

\* IPFilters.Allow, the loop over f.filters from filter i on
RECURSIVE IPFiltersAllowFrom(_, _, _)
IPFiltersAllowFrom(chain, i, ipstr) ==
    IF i > Len(chain.filters) THEN TRUE
    ELSE IF ~IPFilterAllow(chain.filters[i], ipstr) THEN FALSE
    ELSE IPFiltersAllowFrom(chain, i + 1, ipstr)

\* IPFilters.Allow
IPFiltersAllow(chain, ipstr) == IPFiltersAllowFrom(chain, 1, ipstr)

(***************************************************************************)
(* Configuration: Spec, Rule, Path, Header                                 *)
(***************************************************************************)
HeaderRule(key, values, regexp) == [Key |-> key, Values |-> values, Regexp |-> regexp]

PathSpec(ipFilter, path, pathPrefix, pathRegexp, methods, backend, rewriteTarget, headers) ==
    [IPFilter |-> ipFilter, Path |-> path, PathPrefix |-> pathPrefix,
     PathRegexp |-> pathRegexp, Methods |-> methods, Backend |-> backend,
     RewriteTarget |-> rewriteTarget, Headers |-> headers]

RuleSpec(ipFilter, host, hostRegexp, paths) ==
    [IPFilter |-> ipFilter, Host |-> host, HostRegexp |-> hostRegexp, Paths |-> paths]

\* &Spec{}: the configuration of the snapshot newMux stores
SpecEmpty ==
    [IPFilter |-> NilFilterSpec, CacheSize |-> 0, Tracing |-> "", XForwardedFor |-> FALSE,
     Rules |-> <<>>]

\* a.com: GET /a goes to a path with a header rule, other methods of /a are not
\* allowed, /a/b is accepted by no path of the rule; b.com: /a/b by prefix;
\* any host: /a/b by regular expression, with a rewrite
SpecA ==
    [IPFilter |-> FilterSpec(FALSE, {}, {Net192}),
     CacheSize |-> 1, Tracing |-> "zipkinA", XForwardedFor |-> TRUE,
     Rules |-> <<
        RuleSpec(NilFilterSpec, "a.com", "", <<
            PathSpec(FilterSpec(FALSE, {}, {IP10002}), PathA, NoPath, "", <<"GET">>, "B1", "",
                     <<HeaderRule("X-Ver", {"v2"}, "")>>),
            PathSpec(NilFilterSpec, PathA, NoPath, "", <<>>, "B2", "", <<>>) >>),
        RuleSpec(FilterSpec(TRUE, {Net10}, {IP10002}), "", "^b\\.", <<
            PathSpec(NilFilterSpec, NoPath, PathAB, "", <<>>, "B2", "/x/$1", <<>>) >>),
        RuleSpec(NilFilterSpec, "", "", <<
            PathSpec(NilFilterSpec, NoPath, NoPath, "^/a/(.+)$", <<>>, "B3", "/x/$1", <<>>) >>) >>]

\* one rule, whose HostRegexp and whose path's PathRegexp do not compile
SpecB ==
    [IPFilter |-> FilterSpec(FALSE, {}, {Net192}),
     CacheSize |-> 1, Tracing |-> "zipkinB", XForwardedFor |-> FALSE,
     Rules |-> <<
        RuleSpec(FilterSpec(FALSE, {}, {IP10002}), "", "(", <<
            PathSpec(NilFilterSpec, NoPath, NoPath, "(", <<"POST">>, "B3", "/x/$1", <<>>) >>) >>]

\* the configurations the supervisor may hand to reloadRules
Specs == {SpecA, SpecB}

(***************************************************************************)
(* Building a snapshot: newIPFilter, newIPFilterChain, newMuxPath,         *)
(* newMuxRule                                                              *)
(***************************************************************************)
newIPFilter(spec) == IF spec.nil THEN NilIPFilter ELSE IPFilterNew(spec)

newIPFilterChain(parentIPFilters, childSpec) ==
    LET inherited == IF ~parentIPFilters.nil THEN parentIPFilters.filters ELSE <<>>
        filters   == IF ~childSpec.nil THEN Append(inherited, IPFilterNew(childSpec))
                     ELSE inherited
    IN  IF Len(filters) = 0 THEN NilChain ELSE NewIPfilters(filters)

newMuxPath(parentIPFilters, path) ==
    [ipFilter      |-> newIPFilter(path.IPFilter),
     ipFilterChain |-> newIPFilterChain(parentIPFilters, path.IPFilter),
     path          |-> path.Path,
     pathPrefix    |-> path.PathPrefix,
     pathRegexp    |-> path.PathRegexp,
     pathRE        |-> IF path.PathRegexp # "" /\ RegexpCompiles(path.PathRegexp)
                       THEN CompiledRE(path.PathRegexp) ELSE NilRE,
     rewriteTarget |-> path.RewriteTarget,
     methods       |-> path.Methods,
     backend       |-> path.Backend,
     headers       |-> path.Headers]

newMuxRule(parentIPFilters, rule, paths) ==
    [nil           |-> FALSE,
     ipFilter      |-> newIPFilter(rule.IPFilter),
     ipFilterChain |-> newIPFilterChain(parentIPFilters, rule.IPFilter),
     host          |-> rule.Host,
     hostRegexp    |-> rule.HostRegexp,
     hostRE        |-> IF rule.HostRegexp # "" /\ RegexpCompiles(rule.HostRegexp)
                       THEN CompiledRE(rule.HostRegexp) ELSE NilRE,
     paths         |-> paths]

\* an element of make([]*muxRule, n) that the loop has not yet set
NilMuxRule ==
    [nil |-> TRUE, ipFilter |-> NilIPFilter, ipFilterChain |-> NilChain,
     host |-> "", hostRegexp |-> "", hostRE |-> NilRE, paths |-> <<>>]

\* the muxRules value reloadRules allocates, before its loop over spec.Rules
allocMuxRules(spec, cache, tracer) ==
    [spec         |-> spec,
     cache        |-> cache,
     tracer       |-> tracer,
     ipFilter     |-> newIPFilter(spec.IPFilter),
     ipFilterChan |-> newIPFilterChain(NilChain, spec.IPFilter),
     rules        |-> [i \in 1..Len(spec.Rules) |-> NilMuxRule]]

\* the loop of reloadRules over spec.Rules
buildMuxRule(rules, specRule) ==
    LET ruleIPFilterChain == newIPFilterChain(rules.ipFilterChan, specRule.IPFilter)
        paths == [j \in 1..Len(specRule.Paths) |-> newMuxPath(ruleIPFilterChain, specRule.Paths[j])]
    IN  newMuxRule(rules.ipFilterChan, specRule, paths)

fillMuxRules(rules) ==
    [rules EXCEPT !.rules = [i \in 1..Len(rules.spec.Rules) |-> buildMuxRule(rules, rules.spec.Rules[i])]]

(***************************************************************************)
(* Matching                                                                *)
(***************************************************************************)
\* a request: what ctx.Request() answers
Request(host, method, path, realIP, xver) ==
    [host |-> host, method |-> method, path |-> path, realIP |-> realIP, xver |-> xver]

Requests ==
    { Request(h, m, p, ip, x) : h \in Hosts, m \in Methods, p \in Paths, ip \in RealIPs,
                                x \in HeaderValues }

\* Request().Header().Get(key)
HeaderGet(r, key) == IF key = "X-Ver" THEN r.xver ELSE ""

\* muxRules.pass, muxRule.pass, muxPath.pass: the node's own filter
pass(node, r) == IF node.ipFilter.nil THEN TRUE ELSE IPFilterAllow(node.ipFilter, r.realIP)

\* muxRule.match
ruleMatch(mr, r) ==
    IF mr.host = "" /\ mr.hostRE.nil THEN TRUE
    ELSE IF mr.host # "" /\ mr.host = r.host THEN TRUE
    ELSE IF ~mr.hostRE.nil /\ HostREMatchString(mr.hostRE.pattern, r.host) THEN TRUE
    ELSE FALSE

\* muxPath.matchPath
matchPath(mp, r) ==
    IF mp.path = NoPath /\ mp.pathPrefix = NoPath /\ mp.pathRE.nil THEN TRUE
    ELSE IF mp.path # NoPath /\ mp.path = r.path THEN TRUE
    ELSE IF mp.pathPrefix # NoPath /\ HasPrefix(r.path, mp.pathPrefix) THEN TRUE
    ELSE IF ~mp.pathRE.nil THEN PathREMatchString(mp.pathRE.pattern, r.path)
    ELSE FALSE

StrInSlice(s, slice) == \E i \in 1..Len(slice) : slice[i] = s

\* muxPath.matchMethod
matchMethod(mp, r) == IF Len(mp.methods) = 0 THEN TRUE ELSE StrInSlice(r.method, mp.methods)

\* (*Regexp).MatchString on header values; no configuration sets Header.Regexp
HeaderREMatchString(pattern, v) == FALSE

\* muxPath.matchHeaders: whether some header rule hits
matchHeaders(mp, r) ==
    \E i \in 1..Len(mp.headers) :
        LET h == mp.headers[i]
            v == HeaderGet(r, h.Key)
        IN  \/ v \in h.Values
            \/ h.Regexp # "" /\ HeaderREMatchString(h.Regexp, v)

(***************************************************************************)
(* Cache items and the walk of ServeHTTP over an immutable snapshot        *)
(***************************************************************************)
\* a *muxPath: the snapshot that owns it, its rule and its place in the rule
NilPathRef == [nil |-> TRUE, snap |-> 0, rule |-> 0, idx |-> 0]
PathRef(sid, i, j) == [nil |-> FALSE, snap |-> sid, rule |-> i, idx |-> j]

\* A *cacheItem.  site and by are history fields: the statement of the source
\* that allocated the item, and the snapshot the allocating request had loaded.
NilCI ==
    [nil |-> TRUE, ipFilterChan |-> NilChain, notFound |-> FALSE, methodNotAllowed |-> FALSE,
     path |-> NilPathRef, cached |-> FALSE, site |-> "", by |-> 0]

\* the variant of a decision
Variant(ci) ==
    IF ci.notFound THEN "notFound"
    ELSE IF ci.methodNotAllowed THEN "methodNotAllowed"
    ELSE IF ~ci.path.nil THEN "matched"
    ELSE "none"

CacheItem(chain, notFound, methodNotAllowed, path, site, sid) ==
    [nil |-> FALSE, ipFilterChan |-> chain, notFound |-> notFound,
     methodNotAllowed |-> methodNotAllowed, path |-> path, cached |-> FALSE,
     site |-> site, by |-> sid]

\* what the walk ends with: handleIPNotAllow, or an item to handle (and to cache or not)
WalkDeny == [kind |-> "ipNotAllow", ci |-> NilCI, put |-> FALSE]
WalkItem(ci, put) == [kind |-> "item", ci |-> ci, put |-> put]
\* a nil element of rules.rules is dereferenced
WalkPanic == [kind |-> "panic", ci |-> NilCI, put |-> FALSE]

\* servePath with the decision of a header-rule hit handed to putCacheItem too
servePathCachingHeaderHit(sid, mp, i, j, r) ==
    IF ~matchMethod(mp, r)
    THEN WalkItem(CacheItem(mp.ipFilterChain, FALSE, TRUE, NilPathRef, "matchMethod", sid), TRUE)
    ELSE IF ~pass(mp, r) THEN WalkDeny
    ELSE IF matchHeaders(mp, r)
    THEN WalkItem(CacheItem(mp.ipFilterChain, FALSE, FALSE, PathRef(sid, i, j), "matchHeaders", sid), TRUE)
    ELSE WalkItem(CacheItem(mp.ipFilterChain, FALSE, FALSE, PathRef(sid, i, j), "path", sid), TRUE)

\* ServeHTTP, the body of the loop over host.paths for one path that matchPath accepts
servePath(sid, mp, i, j, r) ==
    IF ~matchMethod(mp, r)
    THEN WalkItem(CacheItem(mp.ipFilterChain, FALSE, TRUE, NilPathRef, "matchMethod", sid), TRUE)
    ELSE IF ~pass(mp, r) THEN WalkDeny
    ELSE IF matchHeaders(mp, r)
    THEN WalkItem(CacheItem(mp.ipFilterChain, FALSE, FALSE, PathRef(sid, i, j), "matchHeaders", sid), FALSE)
    ELSE WalkItem(CacheItem(mp.ipFilterChain, FALSE, FALSE, PathRef(sid, i, j), "path", sid), TRUE)

RECURSIVE walkPaths(_, _, _, _, _)
RECURSIVE walkRules(_, _, _, _)

\* walkPaths that ends the walk with notFound when no path of the rule is accepted
walkPathsNoOtherHost(sid, rules, i, j, r) ==
    IF j > Len(rules.rules[i].paths)
    THEN WalkItem(CacheItem(rules.ipFilterChan, TRUE, FALSE, NilPathRef, "notFound", sid), TRUE)
    ELSE IF ~matchPath(rules.rules[i].paths[j], r) THEN walkPaths(sid, rules, i, j + 1, r)
    ELSE servePath(sid, rules.rules[i].paths[j], i, j, r)

\* walkPaths that goes on with the next path when the method is not among Methods
walkPathsTryingLaterPaths(sid, rules, i, j, r) ==
    IF j > Len(rules.rules[i].paths) THEN walkRules(sid, rules, i + 1, r)
    ELSE IF ~matchPath(rules.rules[i].paths[j], r) \/ ~matchMethod(rules.rules[i].paths[j], r)
    THEN walkPaths(sid, rules, i, j + 1, r)
    ELSE servePath(sid, rules.rules[i].paths[j], i, j, r)

\* ServeHTTP, the loop over host.paths from path j on; a rule none of whose
\* paths is accepted leaves the loop, and the loop over rules goes on
walkPaths(sid, rules, i, j, r) ==
    IF j > Len(rules.rules[i].paths) THEN walkRules(sid, rules, i + 1, r)
    ELSE IF ~matchPath(rules.rules[i].paths[j], r) THEN walkPaths(sid, rules, i, j + 1, r)
    ELSE servePath(sid, rules.rules[i].paths[j], i, j, r)

\* serveRule that goes on with the next rule when the rule's own filter denies
serveRuleSkippingDenied(sid, rules, i, r) ==
    IF ~pass(rules.rules[i], r) THEN walkRules(sid, rules, i + 1, r)
    ELSE walkPaths(sid, rules, i, 1, r)

\* ServeHTTP, what the loop over rules.rules does with a rule whose host matches
serveRule(sid, rules, i, r) ==
    IF ~pass(rules.rules[i], r) THEN WalkDeny
    ELSE walkPaths(sid, rules, i, 1, r)

\* ServeHTTP, the loop over rules.rules from rule i on
walkRules(sid, rules, i, r) ==
    IF i > Len(rules.rules)
    THEN WalkItem(CacheItem(rules.ipFilterChan, TRUE, FALSE, NilPathRef, "notFound", sid), TRUE)
    ELSE IF rules.rules[i].nil THEN WalkPanic
    ELSE IF ~ruleMatch(rules.rules[i], r) THEN walkRules(sid, rules, i + 1, r)
    ELSE serveRule(sid, rules, i, r)

\* ServeHTTP after a cache miss
walk(sid, rules, r) ==
    IF ~pass(rules, r) THEN WalkDeny
    ELSE walkRules(sid, rules, 1, r)

(***************************************************************************)
(* The route cache.  The key is the fingerprint of the request; the cache  *)
(* holds at most cap entries and may evict any entry to make room.         *)
(***************************************************************************)
Key(r) == <<r.host, r.method, r.path>>
Keys == { Key(r) : r \in Requests }

NilCache == [nil |-> TRUE, cap |-> 0, items |-> <<>>]
newCache(size) == [nil |-> FALSE, cap |-> size, items |-> <<>>]

cacheGet(c, key) == IF key \in DOMAIN c.items THEN c.items[key] ELSE NilCI

cacheWith(c, keep, key, ci) ==
    [c EXCEPT !.items = [k \in keep \cup {key} |-> IF k = key THEN ci ELSE c.items[k]]]

\* the contents put may leave
cachePut(c, key, ci) ==
    IF key \in DOMAIN c.items \/ Cardinality(DOMAIN c.items) < c.cap
    THEN { cacheWith(c, DOMAIN c.items, key, ci) }
    ELSE { cacheWith(c, DOMAIN c.items \ {victim}, key, ci) : victim \in DOMAIN c.items }

(***************************************************************************)
(* The handler registry (MuxMapper): backend name -> handler               *)
(***************************************************************************)
Mapper1 == ("B1" :> "h1") @@ ("B2" :> "h2")
Mapper2 == ("B1" :> "h1") @@ ("B2" :> "h2") @@ ("B3" :> "h3")
Mappers == {Mapper1, Mapper2}

(***************************************************************************)
(* Rewriting and X-Forwarded-For                                           *)
(***************************************************************************)
\* strings.Contains
Contains(s, substr) ==
    \E i \in 0..(Len(s) - Len(substr)) : SubSeq(s, i + 1, i + Len(substr)) = substr

\* appendXForwardedFor that appends without looking for the address in the value
appendXForwardedForAlways(v, ip) ==
    IF v = <<>> THEN ip ELSE v \o <<",">> \o ip

\* mux.appendXForwardedFor: the new value of the header, from its value v
appendXForwardedFor(v, ip) ==
    IF v = <<>> THEN ip
    ELSE IF ~Contains(v, ip) THEN v \o <<",">> \o ip
    ELSE v

\* (*Regexp).ReplaceAllString on the patterns and targets of the configurations
ReplaceAllString(pattern, src, repl) ==
    IF pattern = "^/a/(.+)$" /\ src = PathAB /\ repl = "/x/$1"
    THEN <<"/", "x", "/", "b">>
    ELSE src

(***************************************************************************)
(* State                                                                   *)
(***************************************************************************)
VARIABLES
    snaps,      \* the muxRules values allocated so far (a *muxRules is an index)
    caches,     \* the caches allocated so far (a *cache is an index, 0 is nil)
    cur,        \* mux.rules, the atomic handle: the published *muxRules
    mapper,     \* mux.muxMapper
    readers,    \* the requests that hold mux.mapperMutex for reading
    tracers,    \* per tracer, how many times Close was called; tracer 1 is tracing.NoopTracing
    rq,         \* per worker, the ServeHTTP call it runs
    rl,         \* the reloadRules call in progress
    shut,       \* mux.close was called
    missed,     \* history: the cached fingerprints answered 503 since they were cached
    fn          \* the call of a function checked on its own: its inputs, its locals, its results

\* the variables of the mux
muxVars == <<snaps, caches, cur, mapper, readers, tracers, rq, rl, shut, missed>>

vars == <<muxVars, fn>>

\* no function is being checked on its own
NoCall == [op |-> "none"]

Workers == {1}

NoopTracing == 1

NoRequest == Request("", "", NoPath, <<>>, "")

Idle ==
    [pc |-> "idle", rules |-> 0, tracer |-> 0, req |-> NoRequest, ci |-> NilCI, hit |-> FALSE,
     code |-> 0, backend |-> "", handler |-> "", invoked |-> "", path |-> NoPath,
     sawPath |-> NoPath, xff |-> <<>>]

ReloadIdle == [pc |-> "idle", new |-> 0, old |-> 0, closeOld |-> FALSE]

\* newMux
MuxInit ==
    /\ snaps = << allocMuxRules(SpecEmpty, 0, NoopTracing) >>
    /\ caches = << >>
    /\ cur = 1
    /\ mapper \in Mappers
    /\ readers = {}
    /\ tracers = << 0 >>
    /\ rq = [w \in Workers |-> Idle]
    /\ rl = ReloadIdle
    /\ shut = FALSE
    /\ missed = {}

Init == MuxInit /\ fn = NoCall

(***************************************************************************)
(* Garbage: a muxRules value that neither the handle, nor a request, nor   *)
(* the reloadRules call refers to can no longer be reached; the model      *)
(* forgets its contents and those of its cache.                            *)
(***************************************************************************)
Collected == allocMuxRules(SpecEmpty, -1, 0)

Live(c, q, l) == ({c, l.new, l.old} \cup { q[w].rules : w \in Workers }) \ {0}

Reclaim(sn, c, q, l) ==
    [i \in 1..Len(sn) |-> IF i \in Live(c, q, l) THEN sn[i] ELSE Collected]

ReclaimCaches(sn, c, q, l) ==
    [k \in 1..Len(caches) |->
        IF \E i \in Live(c, q, l) : sn[i].cache = k THEN caches[k] ELSE NilCache]

ReclaimMissed(c, q, l) == { m \in missed : m[1] \in Live(c, q, l) }

(***************************************************************************)
(* ServeHTTP                                                               *)
(***************************************************************************)
\* the snapshot a request works on: the one it loaded when it began
rulesOf(w) == rq[w].rules

\* muxRules.getCacheItem
getCacheItem(rules, r) ==
    IF rules.cache = 0 THEN NilCI ELSE cacheGet(caches[rules.cache], Key(r))

\* muxRules.putCacheItem: the values of caches it may leave
putCacheItem(rules, r, ci) ==
    IF rules.cache = 0 \/ ci.cached THEN { caches }
    ELSE { [caches EXCEPT ![rules.cache] = c] :
             c \in cachePut(caches[rules.cache], Key(r), [ci EXCEPT !.cached = TRUE]) }

\* the *cacheItem after putCacheItem
putMark(rules, ci) == IF rules.cache = 0 \/ ci.cached THEN ci ELSE [ci EXCEPT !.cached = TRUE]

\* the fingerprints a cache holds, with the snapshot that holds them
Cached(sid, cs) ==
    IF snaps[sid].cache <= 0 THEN {}
    ELSE { <<sid, k>> : k \in DOMAIN cs[snaps[sid].cache].items }

\* rules := m.rules.Load(); ctx := context.New(stdw, stdr, rules.tracer, ...);
\* ci := rules.getCacheItem(ctx)
ServeLoad(w, r) ==
    /\ rq[w].pc = "idle"
    /\ ~shut
    /\ LET ci == getCacheItem(snaps[cur], r)
       IN  rq' = [rq EXCEPT ![w] = [Idle EXCEPT !.rules = cur, !.tracer = snaps[cur].tracer,
                                               !.req = r, !.path = r.path, !.code = 200,
                                               !.ci = ci, !.hit = ~ci.nil,
                                               !.pc = IF ci.nil THEN "walk" ELSE "handle"]]
    /\ UNCHANGED <<fn, snaps, caches, cur, mapper, readers, tracers, rl, shut, missed>>

\* the walk after a cache miss, with putCacheItem
ServeWalk(w) ==
    /\ rq[w].pc = "walk"
    /\ LET res == walk(rulesOf(w), snaps[rulesOf(w)], rq[w].req)
       IN  CASE res.kind = "ipNotAllow" ->
                  /\ rq' = [rq EXCEPT ![w].code = 403, ![w].pc = "done"]
                  /\ caches' = caches
             [] res.kind = "panic" ->
                  /\ rq' = [rq EXCEPT ![w].pc = "panic"]
                  /\ caches' = caches
             [] OTHER ->
                  /\ caches' \in IF res.put
                                 THEN putCacheItem(snaps[rulesOf(w)], rq[w].req, res.ci)
                                 ELSE { caches }
                  /\ rq' = [rq EXCEPT ![w].ci = IF res.put THEN putMark(snaps[rulesOf(w)], res.ci)
                                                ELSE res.ci,
                                       ![w].pc = "handle"]
    /\ missed' = { m \in missed : m \in Cached(m[1], caches') }
    /\ UNCHANGED <<fn, snaps, cur, mapper, readers, tracers, rl, shut>>

\* the muxPath a *muxPath points to
Deref(ref) == snaps[ref.snap].rules[ref.rule].paths[ref.idx]

\* chainAllows that leaves the item's chain unchecked
chainUnchecked(ci, r) == TRUE

\* handleRequestWithCache: whether the item's chain lets the request through
chainAllows(ci, r) == ci.ipFilterChan.nil \/ IPFiltersAllow(ci.ipFilterChan, r.realIP)

\* registryHas that remembers a miss for a cached fingerprint
registryHasMemoized(w, backend) ==
    /\ backend \in DOMAIN mapper
    /\ <<rulesOf(w), Key(rq[w].req)>> \notin missed

\* m.muxMapper.Get(backend): whether the registry has the backend
registryHas(w, backend) == backend \in DOMAIN mapper

\* rewrites that never rewrites
rewritesNever(mp) == FALSE

\* handleRequestWithCache: ci.path.pathRE != nil && ci.path.rewriteTarget != ""
rewrites(mp) == ~mp.pathRE.nil /\ mp.rewriteTarget # ""

\* handleRequestWithCache up to the call of the handler
ServeHandle(w) ==
    /\ rq[w].pc = "handle"
    /\ LET ci == rq[w].ci
           r == rq[w].req
       IN  IF ~chainAllows(ci, r)
           THEN /\ rq' = [rq EXCEPT ![w].code = 403, ![w].pc = "done"]
                /\ UNCHANGED <<readers, missed>>
           ELSE IF ci.notFound
           THEN /\ rq' = [rq EXCEPT ![w].code = 404, ![w].pc = "done"]
                /\ UNCHANGED <<readers, missed>>
           ELSE IF ci.methodNotAllowed
           THEN /\ rq' = [rq EXCEPT ![w].code = 405, ![w].pc = "done"]
                /\ UNCHANGED <<readers, missed>>
           ELSE IF ~ci.path.nil
           THEN LET mp == Deref(ci.path)
                    exists == registryHas(w, mp.backend)
                    rewrite == rewrites(mp)
                IN  /\ readers' = readers \cup {w}
                    /\ IF ~exists
                       THEN /\ rq' = [rq EXCEPT ![w].code = 503, ![w].backend = mp.backend,
                                                ![w].pc = "done"]
                            /\ missed' = missed \cup
                                         ({<<rulesOf(w), Key(r)>>} \cap Cached(rulesOf(w), caches))
                       ELSE /\ rq' = [rq EXCEPT
                                ![w].backend = mp.backend,
                                ![w].handler = mapper[mp.backend],
                                ![w].xff = IF snaps[rulesOf(w)].spec.XForwardedFor
                                           THEN appendXForwardedFor(rq[w].xff, r.realIP)
                                           ELSE rq[w].xff,
                                ![w].path = IF rewrite
                                            THEN ReplaceAllString(mp.pathRE.pattern, r.path,
                                                                  mp.rewriteTarget)
                                            ELSE r.path,
                                ![w].pc = "invoke"]
                            /\ missed' = missed
           ELSE /\ rq' = [rq EXCEPT ![w].pc = "done"]
                /\ UNCHANGED <<readers, missed>>
    /\ UNCHANGED <<fn, snaps, caches, cur, mapper, tracers, rl, shut>>

\* handler.Handle(ctx)
ServeInvoke(w) ==
    /\ rq[w].pc = "invoke"
    /\ rq' = [rq EXCEPT ![w].invoked = rq[w].handler, ![w].sawPath = rq[w].path,
                        ![w].pc = "done"]
    /\ UNCHANGED <<fn, snaps, caches, cur, mapper, readers, tracers, rl, shut, missed>>

\* the deferred m.mapperMutex.RUnlock() and ctx.Finish(): the call returns
ServeFinish(w) ==
    /\ rq[w].pc = "done"
    /\ readers' = readers \ {w}
    /\ rq' = [rq EXCEPT ![w] = Idle]
    /\ snaps' = Reclaim(snaps, cur, rq', rl)
    /\ caches' = ReclaimCaches(snaps, cur, rq', rl)
    /\ missed' = ReclaimMissed(cur, rq', rl)
    /\ UNCHANGED <<fn, cur, mapper, tracers, rl, shut>>

(***************************************************************************)
(* setMuxMapper, reloadRules, close                                        *)
(***************************************************************************)
\* Lock that does not wait for the readers
LockUnguarded(rd) == TRUE

\* m.mapperMutex.Lock(): granted when no request holds the read lock
Lock(rd) == rd = {}

\* Lock(); m.muxMapper = mapper; Unlock(): waits until no request holds the read lock
SetMuxMapper(m) ==
    /\ Lock(readers)
    /\ m # mapper
    /\ mapper' = m
    /\ UNCHANGED <<fn, snaps, caches, cur, readers, tracers, rq, rl, shut, missed>>

\* cacheFor that keeps the cache of the previous muxRules
cacheForKept(spec, oldRules) ==
    IF spec.CacheSize > 0
    THEN IF snaps[oldRules].cache > 0 THEN snaps[oldRules].cache ELSE Len(caches) + 1
    ELSE 0

\* the *cache of the new muxRules: newCache when spec.CacheSize > 0, else nil
cacheFor(spec, oldRules) == IF spec.CacheSize > 0 THEN Len(caches) + 1 ELSE 0

\* the outcomes of tracing.New explored: it succeeds
NewOutcomes == {TRUE}

\* reloadRules up to the allocation of the new muxRules and of its cache.
\* newOK: tracing.New succeeds.
ReloadBegin(spec, newOK) ==
    /\ rl.pc = "idle"
    /\ ~shut
    /\ Len(snaps) - 1 < MaxReloads
    /\ LET oldRules == cur
           changed == snaps[oldRules].spec.Tracing # spec.Tracing
           tracer == IF changed
                     THEN IF newOK THEN Len(tracers) + 1 ELSE NoopTracing
                     ELSE snaps[oldRules].tracer
           cache == cacheFor(spec, oldRules)
       IN  /\ changed \/ newOK
           /\ snaps' = Append(snaps, allocMuxRules(spec, cache, tracer))
           /\ caches' = IF cache > Len(caches) THEN Append(caches, newCache(spec.CacheSize))
                        ELSE caches
           /\ tracers' = IF changed /\ newOK THEN Append(tracers, 0) ELSE tracers
           /\ rl' = [pc |-> "build", new |-> Len(snaps) + 1, old |-> oldRules,
                     closeOld |-> changed]
    /\ UNCHANGED <<fn, cur, mapper, readers, rq, shut, missed>>

\* reloadRules, the loop over spec.Rules
ReloadBuild ==
    /\ rl.pc = "build"
    /\ snaps' = [snaps EXCEPT ![rl.new] = fillMuxRules(snaps[rl.new])]
    /\ rl' = [rl EXCEPT !.pc = "store"]
    /\ UNCHANGED <<fn, caches, cur, mapper, readers, tracers, rq, shut, missed>>

\* storeReady with the Store before the loop over spec.Rules
storeBeforeLoop(r) == r.pc = "build"

\* where reloadRules is when it executes m.rules.Store(rules)
storeReady(r) == r.pc = "store"

\* m.rules.Store(rules)
ReloadStore ==
    /\ storeReady(rl)
    /\ cur' = rl.new
    /\ rl' = IF rl.closeOld THEN [rl EXCEPT !.pc = "close", !.new = 0] ELSE ReloadIdle
    /\ snaps' = Reclaim(snaps, cur', rq, rl')
    /\ caches' = ReclaimCaches(snaps, cur', rq, rl')
    /\ missed' = ReclaimMissed(cur', rq, rl')
    /\ UNCHANGED <<fn, mapper, readers, tracers, rq, shut>>

\* the deferred oldRules.tracer.Close()
ReloadClose ==
    /\ rl.pc = "close"
    /\ tracers' = [tracers EXCEPT ![snaps[rl.old].tracer] = @ + 1]
    /\ rl' = ReloadIdle
    /\ snaps' = Reclaim(snaps, cur, rq, rl')
    /\ caches' = ReclaimCaches(snaps, cur, rq, rl')
    /\ missed' = ReclaimMissed(cur, rq, rl')
    /\ UNCHANGED <<fn, cur, mapper, readers, rq, shut>>

\* mux.close; the owner of the server calls reloadRules and close one at a time
MuxClose ==
    /\ ~shut
    /\ rl.pc = "idle"
    /\ tracers' = [tracers EXCEPT ![snaps[cur].tracer] = @ + 1]
    /\ shut' = TRUE
    /\ UNCHANGED <<fn, snaps, caches, cur, mapper, readers, rq, rl, missed>>

Next ==
    \/ \E w \in Workers, r \in Requests : ServeLoad(w, r)
    \/ \E w \in Workers : ServeWalk(w)
    \/ \E w \in Workers : ServeHandle(w)
    \/ \E w \in Workers : ServeInvoke(w)
    \/ \E w \in Workers : ServeFinish(w)
    \/ \E m \in Mappers : SetMuxMapper(m)
    \/ \E spec \in Specs, newOK \in NewOutcomes : ReloadBegin(spec, newOK)
    \/ ReloadBuild
    \/ ReloadStore
    \/ ReloadClose

Spec == Init /\ [][Next]_vars

(***************************************************************************)
(* Properties                                                              *)
(***************************************************************************)
\* the request of worker w has a decision in hand
Decided(w) == rq[w].pc \in {"handle", "invoke", "done"} /\ ~rq[w].ci.nil

\* the item cached under fingerprint k in the cache of snapshot s
Entry(s, k) == caches[snaps[s].cache].items[k]

Entries == UNION { Cached(s, caches) : s \in 1..Len(snaps) }

Denies(f, r) == ~f.nil /\ ~IPFilterAllow(f, r.realIP)

\* the own filters of the nodes on the way root -> rule -> path of decision ci
RouteFilters(w) ==
    {snaps[rq[w].rules].ipFilter} \cup
    (IF rq[w].ci.path.nil THEN {}
     ELSE {snaps[rq[w].ci.path.snap].rules[rq[w].ci.path.rule].ipFilter,
           Deref(rq[w].ci.path).ipFilter})

\* C1: a request whose real IP is denied by the filter of the root, of the matched
\* rule or of the selected path is answered 403 and no handler is invoked, whether
\* the decision came from the cache or from the walk.
C1_DeniedIsForbidden ==
    \A w \in Workers :
        (rq[w].pc \in {"invoke", "done"} /\ \E f \in RouteFilters(w) : Denies(f, rq[w].req))
        => (rq[w].pc = "done" /\ rq[w].code = 403 /\ rq[w].invoked = "")

\* a cache hit on a matched path whose own filter alone denies the request: 403
C1_Witness ==
    \E w \in Workers :
        /\ rq[w].pc = "done" /\ rq[w].hit /\ ~rq[w].ci.path.nil
        /\ ~Denies(snaps[rq[w].rules].ipFilter, rq[w].req)
        /\ Denies(Deref(rq[w].ci.path).ipFilter, rq[w].req)
        /\ rq[w].code = 403

\* the first rule, from rule i on, whose host matcher accepts r (0: none)
RECURSIVE FirstHostMatch(_, _, _)
FirstHostMatch(rules, i, r) ==
    IF i > Len(rules.rules) THEN 0
    ELSE IF ruleMatch(rules.rules[i], r) THEN i
    ELSE FirstHostMatch(rules, i + 1, r)

AcceptsPath(mr, r) == \E j \in 1..Len(mr.paths) : matchPath(mr.paths[j], r)

C3_Claimed ==
    \A w \in Workers :
        (rq[w].pc \in {"invoke", "done"} /\ rq[w].handler # "" /\ ~rq[w].hit) =>
            LET mp == Deref(rq[w].ci.path)
            IN  Len(mp.headers) > 0 => matchHeaders(mp, rq[w].req)

\* C4: no cache holds an item that matchHeaders allocated.
C4_HeaderHitNeverCached ==
    /\ \A e \in Entries : Entry(e[1], e[2]).site # "matchHeaders"
    /\ \A w \in Workers : (Decided(w) /\ rq[w].ci.site = "matchHeaders") => ~rq[w].ci.cached

\* a request dispatched by a header-rule hit, while the cache of its snapshot holds
\* nothing under its fingerprint
C4_Witness ==
    \E w \in Workers :
        /\ rq[w].pc = "done" /\ rq[w].ci.site = "matchHeaders" /\ rq[w].invoked # ""
        /\ snaps[rq[w].rules].cache > 0
        /\ <<rq[w].rules, Key(rq[w].req)>> \notin Entries

\* C5 as claimed: no cache holds an item whose path has header rules.
C5_Claimed ==
    \A e \in Entries :
        ~Entry(e[1], e[2]).path.nil => Len(Deref(Entry(e[1], e[2]).path).headers) = 0

HasHeaderRules(ci) == ~ci.path.nil /\ Len(Deref(ci.path).headers) > 0

SameDecision(ci1, ci2) == Variant(ci1) = Variant(ci2) /\ ci1.path = ci2.path

\* C6: the decision a request has in hand, from the cache or from the walk, is the
\* decision the walk of the same snapshot reaches for every request with the same
\* fingerprint, whatever its real IP and headers, unless the path selected for one
\* of the two has header rules.
C6_SameFingerprintSameDecision ==
    \A w \in Workers :
        Decided(w) =>
            \A r2 \in Requests :
                Key(r2) = Key(rq[w].req) =>
                    LET res == walk(rq[w].rules, snaps[rq[w].rules], r2)
                    IN  res.kind = "item" =>
                            \/ SameDecision(rq[w].ci, res.ci)
                            \/ HasHeaderRules(rq[w].ci)
                            \/ HasHeaderRules(res.ci)

\* a request answered from the cache with a path without header rules, and a request
\* with the same fingerprint and another real IP that the walk decides
C6_Witness ==
    \E w \in Workers :
        /\ rq[w].pc = "done" /\ rq[w].hit /\ ~rq[w].ci.path.nil /\ ~HasHeaderRules(rq[w].ci)
        /\ \E r2 \in Requests :
              /\ Key(r2) = Key(rq[w].req) /\ r2.realIP # rq[w].req.realIP
              /\ walk(rq[w].rules, snaps[rq[w].rules], r2).kind = "item"

\* a muxRules value whose loop over spec.Rules is complete
Built(rules) ==
    /\ rules.cache >= 0
    /\ Len(rules.rules) = Len(rules.spec.Rules)
    /\ \A i \in 1..Len(rules.rules) :
          /\ ~rules.rules[i].nil
          /\ Len(rules.rules[i].paths) = Len(rules.spec.Rules[i].Paths)

\* the parts of its snapshot a request of worker w has used
OneSnapshot(w) ==
    LET rules == snaps[rq[w].rules]
    IN  /\ Built(rules)
        /\ rq[w].tracer = rules.tracer
        /\ ~rq[w].ci.nil =>
              /\ rq[w].ci.by = rq[w].rules
              /\ ~rq[w].ci.path.nil => rq[w].ci.path.snap = rq[w].rules
        /\ rq[w].handler # "" =>
              rq[w].xff = IF rules.spec.XForwardedFor THEN rq[w].req.realIP ELSE <<>>

\* C7: the published snapshot is fully built, and a request in progress keeps the
\* snapshot it loaded, which stays as it was, and has taken its tracer, its cache
\* items, its paths and its XForwardedFor flag from that snapshot.
C7_OneSnapshotPerRequest ==
    /\ [](Built(snaps[cur]) /\ \A w \in Workers : rq[w].pc # "idle" => OneSnapshot(w))
    /\ [][\A w \in Workers :
            (rq[w].pc # "idle" /\ rq'[w].pc # "idle") =>
                /\ rq'[w].rules = rq[w].rules
                /\ snaps'[rq[w].rules] = snaps[rq[w].rules]]_vars

\* a request in progress on a snapshot that reloadRules has replaced meanwhile
C7_Witness ==
    \E w \in Workers :
        /\ rq[w].pc = "invoke" /\ rq[w].rules # cur
        /\ snaps[rq[w].rules].spec # snaps[cur].spec
        /\ Len(snaps[cur].rules) > 0

\* the cache of snapshot s holds fingerprint k
Holds(s, k) == <<s, k>> \in Cached(s, caches)

\* C8: every item of a snapshot's cache was allocated by a request that had loaded
\* that snapshot, no two snapshots share a cache, and an item a request gets from
\* the cache was allocated under the snapshot the request loaded.
C8_CacheBoundToSnapshot ==
    /\ \A e \in Entries : Entry(e[1], e[2]).by = e[1]
    /\ \A s1, s2 \in 1..Len(snaps) :
          (s1 # s2 /\ snaps[s1].cache > 0) => snaps[s1].cache # snaps[s2].cache
    /\ \A w \in Workers : rq[w].hit => rq[w].ci.by = rq[w].rules

\* a request on a replaced snapshot has put its decision into the cache of that
\* snapshot, and the cache of the published snapshot does not hold its fingerprint
C8_Witness ==
    \E w \in Workers :
        /\ Decided(w) /\ ~rq[w].hit /\ rq[w].ci.cached
        /\ rq[w].rules # cur
        /\ snaps[cur].cache > 0
        /\ Holds(rq[w].rules, Key(rq[w].req))
        /\ ~Holds(cur, Key(rq[w].req))

\* C9 as claimed: a rule whose HostRegexp did not compile, and a path whose
\* PathRegexp did not compile, match no request.
C9_Claimed ==
    \A w \in Workers :
        (Decided(w) /\ ~rq[w].ci.path.nil) =>
            LET mr == snaps[rq[w].ci.path.snap].rules[rq[w].ci.path.rule]
                mp == Deref(rq[w].ci.path)
            IN  /\ ~(mr.hostRegexp # "" /\ mr.hostRE.nil)
                /\ ~(mp.pathRegexp # "" /\ mp.pathRE.nil)

\* C10: a request matched to a path, and let through by the chain, is answered 503
\* without a handler when the registry lacks the path's backend at the lookup, and
\* is handed to the handler the registry holds otherwise, also when the match comes
\* from the cache and an earlier request with the fingerprint was answered 503.
C10_RegistryMissNotMemoized ==
    \A w \in Workers :
        (rq[w].pc = "done" /\ ~rq[w].ci.path.nil /\ chainAllows(rq[w].ci, rq[w].req)) =>
            LET backend == Deref(rq[w].ci.path).backend
            IN  IF backend \in DOMAIN mapper
                THEN rq[w].invoked = mapper[backend] /\ rq[w].code # 503
                ELSE rq[w].invoked = "" /\ rq[w].code = 503

\* a request answered from the cache and handed to the backend, after a request with
\* its fingerprint was answered 503 from the same cached match
C10_Witness ==
    \E w \in Workers :
        /\ rq[w].pc = "done" /\ rq[w].hit
        /\ <<rq[w].rules, Key(rq[w].req)>> \in missed
        /\ rq[w].invoked # ""

\* the places <<rule, path>> of the snapshot whose host matcher and path matcher
\* accept r
Accepting(rules, r) ==
    UNION { { <<i, j>> : j \in { n \in 1..Len(rules.rules[i].paths) :
                                     /\ ruleMatch(rules.rules[i], r)
                                     /\ matchPath(rules.rules[i].paths[n], r) } } :
            i \in 1..Len(rules.rules) }

Before(p, q) == p[1] < q[1] \/ (p[1] = q[1] /\ p[2] <= q[2])

\* the first of them in declaration order
FirstAccepting(rules, r) ==
    CHOOSE p \in Accepting(rules, r) : \A q \in Accepting(rules, r) : Before(p, q)

MethodRefused(mp, r) == Len(mp.methods) > 0 /\ \A n \in 1..Len(mp.methods) : mp.methods[n] # r.method

\* the status a finished request with decision methodNotAllowed must have
Answered405(w) ==
    rq[w].pc = "done" =>
        /\ rq[w].invoked = ""
        /\ rq[w].code = IF rq[w].ci.ipFilterChan.nil
                           \/ \A n \in 1..Len(rq[w].ci.ipFilterChan.filters) :
                                 ~Denies(rq[w].ci.ipFilterChan.filters[n], rq[w].req)
                        THEN 405 ELSE 403

\* C11: on a cache miss, when the first path in declaration order whose rule and path
\* matcher accept the request has a non-empty Methods list without the request
\* method, the decision is methodNotAllowed with that path's filter chain, whatever
\* the later paths are, the cache of the snapshot (if it has one) holds the decision
\* under the fingerprint, and the answer is 405 when the chain allows the real IP
\* (403 otherwise); a methodNotAllowed decision from the cache is answered alike.
C11_MethodNotAllowedCached ==
    \A w \in Workers :
        /\ (Decided(w) /\ ~rq[w].hit /\ Accepting(snaps[rq[w].rules], rq[w].req) # {}) =>
              LET rules == snaps[rq[w].rules]
                  p == FirstAccepting(rules, rq[w].req)
                  mp == rules.rules[p[1]].paths[p[2]]
              IN  MethodRefused(mp, rq[w].req) =>
                      /\ rq[w].ci.methodNotAllowed
                      /\ rq[w].ci.path.nil
                      /\ rq[w].ci.ipFilterChan = mp.ipFilterChain
                      /\ rules.cache > 0 =>
                            /\ Holds(rq[w].rules, Key(rq[w].req))
                            /\ Entry(rq[w].rules, Key(rq[w].req)) = rq[w].ci
        /\ (Decided(w) /\ rq[w].ci.methodNotAllowed) => Answered405(w)

\* a request answered 405 from the cache, in a rule where a later path accepts the
\* path and the method of the request
C11_Witness ==
    \E w \in Workers :
        /\ rq[w].pc = "done" /\ rq[w].hit /\ rq[w].ci.methodNotAllowed /\ rq[w].code = 405
        /\ LET rules == snaps[rq[w].rules]
               p == FirstAccepting(rules, rq[w].req)
           IN  \E j \in (p[2] + 1)..Len(rules.rules[p[1]].paths) :
                  /\ matchPath(rules.rules[p[1]].paths[j], rq[w].req)
                  /\ matchMethod(rules.rules[p[1]].paths[j], rq[w].req)

(***************************************************************************)
(* IPFilter.Allow and IPFilters.Allow on their own                         *)
(***************************************************************************)
\* a string net.ParseIP does not parse
BadIP == <<"x">>

IPStrings == RealIPs \cup {BadIP}

\* the filter specs: every choice of allow and block entries among addresses and
\* networks of the universe
FilterSpecs ==
    { FilterSpec(d, a, b) : d \in BOOLEAN, a \in SUBSET {IP10001, Net10, Net192},
                            b \in SUBSET {IP10002, Net10, Net192} }

AllowCalls ==
    [op : {"Allow"}, pc : {"call"}, spec : FilterSpecs, ipstr : IPStrings,
     allowErr : BOOLEAN, blockErr : BOOLEAN, out : {FALSE}]

AllowInit == MuxInit /\ fn \in AllowCalls

\* f := ipfilter.New(spec); f.Allow(ipstr)
AllowCall ==
    /\ fn.pc = "call"
    /\ fn' = [fn EXCEPT !.pc = "done",
                        !.out = IPFilterAllowOn(IPFilterNew(fn.spec), fn.ipstr,
                                                fn.allowErr, fn.blockErr)]
    /\ UNCHANGED muxVars

AllowNext == AllowCall

AllowSpec == AllowInit /\ [][AllowNext]_vars

\* the address of ipstr lies in one of the entries (addresses or networks)
InRanges(entries, ipstr) ==
    \E c \in entries :
        IF ParseIP(c) # NilIP THEN ParseIP(c) = ParseIP(ipstr)
        ELSE NetContains(ParseCIDR(c), ParseIP(ipstr))

\* C12: IPFilter.Allow returns (not BlockByDefault) when the input is not a valid IP
\* or a range lookup fails; otherwise, with a = ip in the allow ranges and b = ip in
\* the block ranges, true when a and not b, false when b and not a, and
\* (not BlockByDefault) when both or neither hold; with both lists empty it returns
\* (not BlockByDefault) for every input.
C12_AllowDecisionTable ==
    fn.pc = "done" =>
        LET a == InRanges(fn.spec.AllowIPs, fn.ipstr)
            b == InRanges(fn.spec.BlockIPs, fn.ipstr)
            defaultResult == ~fn.spec.BlockByDefault
        IN  /\ fn.out = IF ParseIP(fn.ipstr) = NilIP \/ fn.allowErr \/ fn.blockErr
                        THEN defaultResult
                        ELSE IF a /\ ~b THEN TRUE
                        ELSE IF b /\ ~a THEN FALSE
                        ELSE defaultResult
            /\ (fn.spec.AllowIPs = {} /\ fn.spec.BlockIPs = {}) => fn.out = defaultResult

\* a valid address in an allow range and in a block range, answered by the default
C12_Witness ==
    /\ fn.pc = "done" /\ ParseIP(fn.ipstr) # NilIP /\ ~fn.allowErr /\ ~fn.blockErr
    /\ InRanges(fn.spec.AllowIPs, fn.ipstr) /\ InRanges(fn.spec.BlockIPs, fn.ipstr)
    /\ ~fn.spec.BlockByDefault /\ fn.out

\* the filters a chain is made of
ChainFilterSpecs ==
    { FilterSpec(FALSE, {}, {Net192}), FilterSpec(TRUE, {Net10}, {IP10002}),
      FilterSpec(FALSE, {}, {IP10002}), FilterSpec(TRUE, {}, {}) }

\* the chains: nil, or NewIPfilters of up to MaxChain filters
Chains ==
    {NilChain} \cup
    { NewIPfilters([i \in DOMAIN specs |-> IPFilterNew(specs[i])]) :
        specs \in UNION { [1..n -> ChainFilterSpecs] : n \in 0..MaxChain } }

ChainCalls ==
    [op : {"Chain"}, pc : {"call"}, chain : Chains, ipstr : IPStrings,
     out : {FALSE}, passed : {FALSE}]

ChainInit == MuxInit /\ fn \in ChainCalls

\* chain.Allow(ipstr) on a chain that is not nil, and the check of
\* handleRequestWithCache on a cache item that carries the chain
ChainCall ==
    /\ fn.pc = "call"
    /\ fn' = [fn EXCEPT
                !.pc = "done",
                !.out = IF fn.chain.nil THEN FALSE ELSE IPFiltersAllow(fn.chain, fn.ipstr),
                !.passed = chainAllows(
                               CacheItem(fn.chain, TRUE, FALSE, NilPathRef, "notFound", 0),
                               Request("a.com", "GET", PathA, fn.ipstr, ""))]
    /\ UNCHANGED muxVars

ChainNext == ChainCall

ChainSpec == ChainInit /\ [][ChainNext]_vars

\* C13: IPFilters.Allow is true exactly when every filter of the chain allows the
\* address, and the dispatcher lets every address through a nil chain and follows
\* IPFilters.Allow on any other.
C13_ChainIsConjunction ==
    fn.pc = "done" =>
        IF fn.chain.nil THEN fn.passed
        ELSE /\ fn.out <=> \A i \in 1..Len(fn.chain.filters) :
                              IPFilterAllow(fn.chain.filters[i], fn.ipstr)
             /\ fn.passed = fn.out

\* a chain of three filters that is refused because of its last filter alone
C13_Witness ==
    /\ fn.pc = "done" /\ ~fn.chain.nil /\ Len(fn.chain.filters) = 3
    /\ IPFilterAllow(fn.chain.filters[1], fn.ipstr)
    /\ IPFilterAllow(fn.chain.filters[2], fn.ipstr)
    /\ ~IPFilterAllow(fn.chain.filters[3], fn.ipstr)
    /\ ~fn.out /\ ~fn.passed

(***************************************************************************)
(* appendXForwardedFor on its own                                          *)
(***************************************************************************)
\* the addresses of ips, joined by commas
RECURSIVE JoinIPs(_)
JoinIPs(ips) ==
    IF Len(ips) = 0 THEN <<>>
    ELSE IF Len(ips) = 1 THEN ips[1]
    ELSE ips[1] \o <<",">> \o JoinIPs(Tail(ips))

\* the values of the request header X-Forwarded-For: up to MaxHops addresses, and an
\* address (110.0.0.1) of which 10.0.0.1 is a substring
XffValues ==
    { JoinIPs(ips) : ips \in UNION { [1..n -> RealIPs] : n \in 0..MaxHops } }
    \cup { <<"1">> \o IP10001 }

XffCalls ==
    [op : {"Xff"}, pc : {"call"}, v : XffValues, ip : RealIPs, once : {<<>>}, twice : {<<>>}]

XffInit == MuxInit /\ fn \in XffCalls

\* m.appendXForwardedFor(ctx) on a request with X-Forwarded-For value v
XffFirst ==
    /\ fn.pc = "call"
    /\ fn' = [fn EXCEPT !.pc = "once", !.once = appendXForwardedFor(fn.v, fn.ip)]
    /\ UNCHANGED muxVars

\* m.appendXForwardedFor(ctx) again on the same request
XffSecond ==
    /\ fn.pc = "once"
    /\ fn' = [fn EXCEPT !.pc = "twice", !.twice = appendXForwardedFor(fn.once, fn.ip)]
    /\ UNCHANGED muxVars

XffNext == XffFirst \/ XffSecond

XffSpec == XffInit /\ [][XffNext]_vars

\* C14: applying appendXForwardedFor twice gives the X-Forwarded-For value that
\* applying it once gives, and a value in which the real IP occurs is left as it is.
C14_AppendIdempotent ==
    /\ fn.pc = "twice" => fn.twice = fn.once
    /\ (fn.pc \in {"once", "twice"} /\ Contains(fn.v, fn.ip)) => fn.once = fn.v

\* a value without the real IP: the first call appends it, the second changes nothing
C14_Witness ==
    /\ fn.pc = "twice" /\ fn.v # <<>> /\ ~Contains(fn.v, fn.ip)
    /\ fn.once = fn.v \o <<",">> \o fn.ip
    /\ fn.twice = fn.once

(***************************************************************************)
(* Properties of the mux, continued                                        *)
(***************************************************************************)
\* matchPath accepted r by the PathRegexp of mp: neither Path nor PathPrefix did
RegexpMatched(mp, r) ==
    /\ ~(mp.path = NoPath /\ mp.pathPrefix = NoPath /\ mp.pathRE.nil)
    /\ ~(mp.path # NoPath /\ mp.path = r.path)
    /\ ~(mp.pathPrefix # NoPath /\ HasPrefix(r.path, mp.pathPrefix))
    /\ ~mp.pathRE.nil
    /\ PathREMatchString(mp.pathRE.pattern, r.path)

\* C15: the handler a request is dispatched to observes the request path replaced by
\* the regexp substitution with RewriteTarget when the PathRegexp of the path is
\* what matched the request and RewriteTarget is not empty, and the original request
\* path otherwise; the replacement is made before the handler is invoked.
C15_RewriteBeforeHandler ==
    \A w \in Workers :
        (rq[w].pc \in {"invoke", "done"} /\ rq[w].handler # "") =>
            LET mp == Deref(rq[w].ci.path)
                seen == IF rq[w].pc = "invoke" THEN rq[w].path ELSE rq[w].sawPath
            IN  /\ rq[w].pc = "done" => rq[w].invoked = rq[w].handler
                /\ seen = IF RegexpMatched(mp, rq[w].req) /\ mp.rewriteTarget # ""
                          THEN ReplaceAllString(mp.pathRegexp, rq[w].req.path, mp.rewriteTarget)
                          ELSE rq[w].req.path

\* a request for /a/b handed to its handler with the path /x/b, the match coming
\* from the cache
C15_Witness ==
    \E w \in Workers :
        /\ rq[w].pc = "done" /\ rq[w].hit /\ rq[w].invoked # ""
        /\ RegexpMatched(Deref(rq[w].ci.path), rq[w].req)
        /\ rq[w].req.path = PathAB
        /\ rq[w].sawPath = <<"/", "x", "/", "b">>

(***************************************************************************)
(* The redirector.  Its Init and Handle follow section 4.8 of the          *)
(* specification; the configurations, the requests and the expected        *)
(* answers are those of TestRedirector.  Strings are TLA+ strings, and the *)
(* regular expressions are given by their values on the subjects of the    *)
(* requests below.                                                         *)
(***************************************************************************)
getSpec(match, part, replace, code) ==
    [Match |-> match, MatchPart |-> part, Replacement |-> replace, StatusCode |-> code]

ValidMatchParts == {"uri", "full", "path"}
ValidStatusCodes == {301, 302, 303, 304, 307, 308}

\* the configurations: valid and invalid match parts and status codes
RedirectorSpecs ==
    { getSpec(m, part, repl, code) :
        m \in {"(.*)", "^/users/([0-9]+)"},
        part \in ValidMatchParts \cup {"", "all", "other", "URI", "uRi", "urI"},
        repl \in {"$1", "display?user=$1"},
        code \in ValidStatusCodes \cup {0, 200, 800} }

\* a request, by the three subjects the redirector may select
RedirectRequest(full, uri, path) == [full |-> full, uri |-> uri, path |-> path]

RedirectRequests ==
    { RedirectRequest("http://a.com:8080/foo/bar?baz=qux", "/foo/bar?baz=qux", "/foo/bar"),
      RedirectRequest("http://a.com:8080/users/123", "/users/123", "/users/123"),
      RedirectRequest("http://a.com:8080/users/a123", "/users/a123", "/users/a123"),
      RedirectRequest("http://a.com:8080/profile/users/a123", "/profile/users/a123",
                      "/profile/users/a123") }

\* Init that keeps the configuration as given
RedirectorInitKeeping(spec) == spec

\* Redirector.Init: the configuration after validation
RedirectorInit(spec) ==
    [spec EXCEPT
        !.MatchPart = IF spec.MatchPart \in ValidMatchParts THEN spec.MatchPart ELSE "uri",
        !.StatusCode = IF spec.StatusCode \in ValidStatusCodes THEN spec.StatusCode ELSE 301]

\* the subject string of a request
Subject(part, req) ==
    CASE part = "full" -> req.full
      [] part = "path" -> req.path
      [] OTHER         -> req.uri

\* whether the regexp matches the subject
RedirectMatches(match, subject) ==
    CASE match = "(.*)"             -> TRUE
      [] match = "^/users/([0-9]+)" -> subject = "/users/123"
      [] OTHER                      -> FALSE

\* the regexp substitution on the subject: the subject itself when nothing matches
RedirectReplace(match, subject, repl) ==
    LET group == IF match = "(.*)" THEN subject ELSE "123"
    IN  IF ~RedirectMatches(match, subject) THEN subject
        ELSE IF repl = "$1" THEN group
        ELSE "display?user=" \o group

\* http.StatusText
StatusText(code) ==
    CASE code = 301 -> "Moved Permanently"
      [] code = 302 -> "Found"
      [] code = 303 -> "See Other"
      [] code = 304 -> "Not Modified"
      [] code = 307 -> "Temporary Redirect"
      [] code = 308 -> "Permanent Redirect"
      [] OTHER      -> ""

NoResponse == [sent |-> FALSE, location |-> "", code |-> 0, body |-> ""]

\* Handle that answers only when the regexp matches
RedirectorHandleMatchOnly(spec, req) ==
    IF ~RedirectMatches(spec.Match, Subject(spec.MatchPart, req)) THEN NoResponse
    ELSE [sent |-> TRUE,
          location |-> RedirectReplace(spec.Match, Subject(spec.MatchPart, req), spec.Replacement),
          code |-> spec.StatusCode, body |-> StatusText(spec.StatusCode)]

\* Redirector.Handle: the response
RedirectorHandle(spec, req) ==
    [sent |-> TRUE,
     location |-> RedirectReplace(spec.Match, Subject(spec.MatchPart, req), spec.Replacement),
     code |-> spec.StatusCode, body |-> StatusText(spec.StatusCode)]

RedirectorCalls ==
    { [op |-> "Redirector", pc |-> "new", given |-> spec, spec |-> spec, req |-> req,
       resp |-> NoResponse] : spec \in RedirectorSpecs, req \in RedirectRequests }

RedirectorStart == MuxInit /\ fn \in RedirectorCalls

\* r := &Redirector{spec: spec}; r.Init()
RedirectorInitCall ==
    /\ fn.pc = "new"
    /\ fn' = [fn EXCEPT !.pc = "init", !.spec = RedirectorInit(fn.spec)]
    /\ UNCHANGED muxVars

\* r.Handle(ctx)
RedirectorHandleCall ==
    /\ fn.pc = "init"
    /\ fn' = [fn EXCEPT !.pc = "handled", !.resp = RedirectorHandle(fn.spec, fn.req)]
    /\ UNCHANGED muxVars

RedirectorNext == RedirectorInitCall \/ RedirectorHandleCall

RedirectorSpec == RedirectorStart /\ [][RedirectorNext]_vars

C17_NoMatchRedirectsToSubject ==
    (fn.pc = "handled" /\ ~RedirectMatches(fn.spec.Match, Subject(fn.spec.MatchPart, fn.req))) =>
        /\ fn.resp.sent
        /\ fn.resp.location = Subject(fn.spec.MatchPart, fn.req)
        /\ fn.resp.code = fn.spec.StatusCode
        /\ fn.resp.code \in {301, 302, 303, 304, 307, 308}
        /\ fn.resp.body = StatusText(fn.resp.code)

\* the request for /users/a123 of the test: 301, Moved Permanently, Location /users/a123
C17_Witness ==
    /\ fn.pc = "handled"
    /\ fn.given = getSpec("^/users/([0-9]+)", "path", "display?user=$1", 301)
    /\ fn.req.full = "http://a.com:8080/users/a123"
    /\ fn.resp = [sent |-> TRUE, location |-> "/users/a123", code |-> 301,
                  body |-> "Moved Permanently"]

(***************************************************************************)
(* httpResponse.finish and flushBody.  The body is a number of full        *)
(* buffers of bodyFlushBuffSize bytes followed by a last, shorter piece    *)
(* that ends with io.EOF or with a read error; the client's Write fails at *)
(* its failAt-th call (0: never).  The k-th registered flush function      *)
(* returns the body it is given with its mark k added; log is the history  *)
(* of the calls of flush functions and of the writes to the client in the  *)
(* loop of flushBody.                                                      *)
(***************************************************************************)
FlushCalls ==
    [op : {"flushBody"}, pc : {"finish"}, hasBody : BOOLEAN, nFuncs : 0..MaxFuncs,
     chunks : 0..MaxChunks, end : {"eof", "err"}, failAt : 0..(MaxChunks + 1),
     read : {0}, writes : {0}, bodyWritten : {0}, code : {200}, header : {0},
     failed : {""}, closed : {FALSE}, log : {<<>>}]

\* a piece of the body: its place in the body and the marks of the flush functions
\* it went through
Piece(i) == [piece |-> i, by |-> <<>>]

CallEvent(k, body, complete) ==
    [ev |-> "call", func |-> k, piece |-> body.piece, by |-> body.by, complete |-> complete]

WriteEvent(body) ==
    [ev |-> "write", func |-> 0, piece |-> body.piece, by |-> body.by, complete |-> FALSE]

\* the loop over w.bodyFlushFuncs that calls the functions last registered first
flushFuncsReversed(n, body, complete) ==
    [body  |-> [body EXCEPT !.by = body.by \o [k \in 1..n |-> n + 1 - k]],
     calls |-> [k \in 1..n |->
                  CallEvent(n + 1 - k, [body EXCEPT !.by = body.by \o [m \in 1..(k - 1) |-> n + 1 - m]],
                            complete)]]

\* for _, fn := range w.bodyFlushFuncs { body = fn(body, complete) }
flushFuncs(n, body, complete) ==
    [body  |-> [body EXCEPT !.by = body.by \o [k \in 1..n |-> k]],
     calls |-> [k \in 1..n |->
                  CallEvent(k, [body EXCEPT !.by = body.by \o [m \in 1..(k - 1) |-> m]],
                            complete)]]

FlushInit == MuxInit /\ fn \in FlushCalls

\* w.std.WriteHeader(w.StatusCode()), then flushBody is entered
Finish ==
    /\ fn.pc = "finish"
    /\ fn' = [fn EXCEPT !.pc = "flush", !.header = fn.code]
    /\ UNCHANGED muxVars

\* flushBody: w.body == nil
FlushNoBody ==
    /\ fn.pc = "flush" /\ ~fn.hasBody
    /\ fn' = [fn EXCEPT !.pc = "done"]
    /\ UNCHANGED muxVars

\* copyToClient of n pieces: io.Copy stops at the first Write that fails, and
\* bodyWritten grows only when io.Copy returns no error
copyToClient(f, n) ==
    IF f.failAt \in (f.writes + 1)..(f.writes + n)
    THEN [f EXCEPT !.writes = f.failAt, !.failed = "write"]
    ELSE [f EXCEPT !.writes = f.writes + n, !.bodyWritten = f.bodyWritten + n]

\* flushBody without flush functions: copyToClient(w.body), then return
FlushCopy ==
    /\ fn.pc = "flush" /\ fn.hasBody /\ fn.nFuncs = 0
    /\ LET copied == copyToClient(fn, fn.chunks + 1)
       IN  fn' = IF copied.failed = "" /\ fn.end = "err"
                 THEN [fn EXCEPT !.pc = "done", !.closed = TRUE, !.read = fn.chunks,
                                 !.writes = fn.writes + fn.chunks, !.failed = "read"]
                 ELSE [copied EXCEPT !.pc = "done", !.closed = TRUE,
                                     !.read = IF copied.failed = "" THEN fn.chunks
                                              ELSE copied.writes - 1]
    /\ UNCHANGED muxVars

\* flushBody, the loop: io.CopyN returns nil
FlushChunk ==
    /\ fn.pc = "flush" /\ fn.hasBody /\ fn.nFuncs > 0
    /\ fn.read < fn.chunks
    /\ LET flushed == flushFuncs(fn.nFuncs, Piece(fn.read + 1), FALSE)
           copied == copyToClient([fn EXCEPT !.read = fn.read + 1,
                                             !.log = fn.log \o flushed.calls
                                                     \o <<WriteEvent(flushed.body)>>], 1)
       IN  fn' = IF copied.failed # "" THEN [copied EXCEPT !.pc = "done", !.closed = TRUE]
                 ELSE copied
    /\ UNCHANGED muxVars

\* flushBody, the loop: io.CopyN returns io.EOF
FlushLast ==
    /\ fn.pc = "flush" /\ fn.hasBody /\ fn.nFuncs > 0
    /\ fn.read = fn.chunks /\ fn.end = "eof"
    /\ LET flushed == flushFuncs(fn.nFuncs, Piece(fn.chunks + 1), TRUE)
           copied == copyToClient([fn EXCEPT !.log = fn.log \o flushed.calls
                                                     \o <<WriteEvent(flushed.body)>>], 1)
       IN  fn' = [copied EXCEPT !.pc = "done", !.closed = TRUE]
    /\ UNCHANGED muxVars

\* flushBody, the loop: io.CopyN returns another error
FlushReadError ==
    /\ fn.pc = "flush" /\ fn.hasBody /\ fn.nFuncs > 0
    /\ fn.read = fn.chunks /\ fn.end = "err"
    /\ fn' = [fn EXCEPT !.pc = "done", !.closed = TRUE, !.code = 500, !.failed = "read"]
    /\ UNCHANGED muxVars

FlushNext ==
    \/ Finish
    \/ FlushNoBody
    \/ FlushCopy
    \/ FlushChunk
    \/ FlushLast
    \/ FlushReadError

FlushSpec == FlushInit /\ [][FlushNext]_vars

\* C18 as claimed: when reading the body or writing to the client returned an error,
\* flushBody has stopped and the status code of the response is 500.
C18_Claimed ==
    (fn.pc = "done" /\ fn.failed # "") => fn.code = 500

(***************************************************************************)
(* The life of the tracers: reloadRules with tracing.New succeeding or     *)
(* failing, and close.                                                     *)
(***************************************************************************)
\* the outcomes of tracing.New: it succeeds or returns an error
TracerOutcomes == BOOLEAN

TracerNext ==
    \/ \E spec \in Specs \cup {SpecEmpty}, newOK \in TracerOutcomes : ReloadBegin(spec, newOK)
    \/ ReloadBuild
    \/ ReloadStore
    \/ ReloadClose
    \/ MuxClose

TracerSpec == Init /\ [][TracerNext]_vars

\* C19 as claimed: over reloadRules calls with equal or changed Tracing, with
\* tracing.New succeeding or failing, followed by close, no tracer, tracing.NoopTracing
\* included, has Close called more than once.
C19_Claimed ==
    \A t \in DOMAIN tracers : tracers[t] <= 1

\* Close is called on a tracer made by tracing.New that request w, still in progress,
\* built its context with
ClosedInUse(w) ==
    /\ rq[w].pc # "idle"
    /\ rq[w].tracer # NoopTracing
    /\ tracers'[rq[w].tracer] > tracers[rq[w].tracer]

\* C20 as claimed: the tracer that reloadRules replaces is closed only once the old
\* muxRules is unreferenced: no step closes the tracer of a request that loaded the
\* old muxRules and has not returned yet.
C20_Claimed ==
    [][\A w \in Workers : ~ClosedInUse(w)]_vars

(***************************************************************************)
(* The filter chains of a snapshot, with the slices they are made of.      *)
(* newIPFilterChain hands the parent's slice itself to NewIPfilters        *)
(* (parentIPFilters.Filters()...), so a child chain starts on the parent's *)
(* array and Append decides whether it stays there.                        *)
(***************************************************************************)
\* a []*IPFilter: an array of the heap, a length and a capacity
NilSlice == [arr |-> 0, len |-> 0, cap |-> 0]

\* append that allocates room for four filters at once
growsliceRoomy(oldCap, newLen) == 4

\* append: the capacity of the array allocated when the old one is full
growslice(oldCap, newLen) == IF newLen > 2 * oldCap THEN newLen ELSE 2 * oldCap

\* IPFilters.Append: f.filters = append(f.filters, filter), on heap h
appendFilter(h, s, filter) ==
    IF s.len < s.cap
    THEN [heap |-> [h EXCEPT ![s.arr][s.len + 1] = filter],
          slice |-> [s EXCEPT !.len = s.len + 1]]
    ELSE LET c == growslice(s.cap, s.len + 1)
             a == [k \in 1..c |-> IF k <= s.len THEN h[s.arr][k]
                                  ELSE IF k = s.len + 1 THEN filter ELSE NilIPFilter]
         IN  [heap |-> Append(h, a),
              slice |-> [arr |-> Len(h) + 1, len |-> s.len + 1, cap |-> c]]

\* *ipfilter.IPFilters with its slice, nil or not
NilSharedChain == [nil |-> TRUE, slice |-> NilSlice]

\* newIPFilterChain on heap h
newIPFilterChainAt(h, parentIPFilters, childSpec) ==
    LET s0 == IF ~parentIPFilters.nil THEN parentIPFilters.slice ELSE NilSlice
        r  == IF ~childSpec.nil THEN appendFilter(h, s0, IPFilterNew(childSpec))
              ELSE [heap |-> h, slice |-> s0]
    IN  [heap |-> r.heap,
         chain |-> IF r.slice.len = 0 THEN NilSharedChain
                   ELSE [nil |-> FALSE, slice |-> r.slice]]

\* IPFilters.Filters read through the heap
Filters(h, chain) ==
    IF chain.nil THEN NilChain
    ELSE NewIPfilters([k \in 1..chain.slice.len |-> h[chain.slice.arr][k]])

\* filter specs that differ from one another, one per place of a configuration
CIDRs == <<IP10001, IP10002, IP192, Net10, Net192>>

FilterAt(n) ==
    LET c == CIDRs[(n % Len(CIDRs)) + 1]
    IN  IF n < Len(CIDRs) THEN FilterSpec(FALSE, {}, {c})
        ELSE IF n < 2 * Len(CIDRs) THEN FilterSpec(TRUE, {c}, {})
        ELSE FilterSpec(FALSE, {c}, {c})

Places == 0..(MaxBranch + MaxBranch * MaxBranch)
RulePlace(i) == i
PathPlace(i, j) == MaxBranch + (i - 1) * MaxBranch + j

\* the configuration whose filters are those of the places in on
BuildConfig(on) ==
    LET opt(n) == IF n \in on THEN FilterAt(n) ELSE NilFilterSpec
    IN  [IPFilter |-> opt(0), CacheSize |-> 0, Tracing |-> "", XForwardedFor |-> FALSE,
         Rules |-> [i \in 1..MaxBranch |->
            RuleSpec(opt(RulePlace(i)), "a.com", "",
                     [j \in 1..MaxBranch |->
                        PathSpec(opt(PathPlace(i, j)), PathA, NoPath, "", <<>>, "B1", "",
                                 <<>>)])]]

BuildConfigs == { BuildConfig(on) : on \in SUBSET Places }

BuildCalls ==
    [op : {"build"}, pc : {"root"}, spec : BuildConfigs, heap : {<<>>},
     ipFilterChan : {NilSharedChain}, i : {1}, j : {1},
     ruleIPFilterChain : {NilSharedChain}, paths : {<<>>}, rules : {<<>>}]

BuildInit == MuxInit /\ fn \in BuildCalls

\* ipFilterChan: newIPFilterChain(nil, spec.IPFilter)
BuildRoot ==
    /\ fn.op = "build" /\ fn.pc = "root"
    /\ LET r == newIPFilterChainAt(fn.heap, NilSharedChain, fn.spec.IPFilter)
       IN  fn' = [fn EXCEPT !.heap = r.heap, !.ipFilterChan = r.chain, !.pc = "rule"]
    /\ UNCHANGED muxVars

\* ruleIPFilterChain := newIPFilterChain(rules.ipFilterChan, specRule.IPFilter)
BuildRuleChain ==
    /\ fn.op = "build" /\ fn.pc = "rule" /\ fn.i <= Len(fn.spec.Rules)
    /\ LET r == newIPFilterChainAt(fn.heap, fn.ipFilterChan, fn.spec.Rules[fn.i].IPFilter)
       IN  fn' = [fn EXCEPT !.heap = r.heap, !.ruleIPFilterChain = r.chain, !.j = 1,
                            !.paths = <<>>, !.pc = "path"]
    /\ UNCHANGED muxVars

\* paths[j] = newMuxPath(ruleIPFilterChain, &specRule.Paths[j])
BuildPath ==
    /\ fn.op = "build" /\ fn.pc = "path" /\ fn.j <= Len(fn.spec.Rules[fn.i].Paths)
    /\ LET r == newIPFilterChainAt(fn.heap, fn.ruleIPFilterChain,
                                   fn.spec.Rules[fn.i].Paths[fn.j].IPFilter)
       IN  fn' = [fn EXCEPT !.heap = r.heap, !.paths = Append(fn.paths, r.chain),
                            !.j = fn.j + 1]
    /\ UNCHANGED muxVars

\* rules.rules[i] = newMuxRule(rules.ipFilterChan, &specRule, paths)
BuildMuxRule ==
    /\ fn.op = "build" /\ fn.pc = "path" /\ fn.j > Len(fn.spec.Rules[fn.i].Paths)
    /\ LET r == newIPFilterChainAt(fn.heap, fn.ipFilterChan, fn.spec.Rules[fn.i].IPFilter)
       IN  fn' = [fn EXCEPT !.heap = r.heap,
                            !.rules = Append(fn.rules, [ipFilterChain |-> r.chain,
                                                        paths |-> fn.paths]),
                            !.i = fn.i + 1, !.pc = "rule"]
    /\ UNCHANGED muxVars

\* the loop over spec.Rules ends: m.rules.Store(rules)
BuildStore ==
    /\ fn.op = "build" /\ fn.pc = "rule" /\ fn.i > Len(fn.spec.Rules)
    /\ fn' = [fn EXCEPT !.pc = "done"]
    /\ UNCHANGED muxVars

BuildNext ==
    \/ BuildRoot
    \/ BuildRuleChain
    \/ BuildPath
    \/ BuildMuxRule
    \/ BuildStore

BuildSpec == BuildInit /\ [][BuildNext]_vars

\* the chain made of the configured filters among specs, in their order; nil when
\* there is none
ParentFirst(specs) ==
    LET on == SelectSeq(specs, LAMBDA s : ~s.nil)
    IN  IF Len(on) = 0 THEN NilChain
        ELSE NewIPfilters([k \in 1..Len(on) |-> IPFilterNew(on[k])])

RootOf == fn.spec.IPFilter
RuleOf(i) == fn.spec.Rules[i].IPFilter
PathOf(i, j) == fn.spec.Rules[i].Paths[j].IPFilter

\* C21: at every point of the construction of a snapshot, every chain built so
\* far reads parent first: the root chain is [root filter], a rule's chain is
\* [root filter, rule filter], a path's chain is [root filter, rule filter, path
\* filter], each restricted to the configured filters and nil exactly when none is
\* configured; as this holds after every later step too, building a chain changes
\* neither its parent's nor a sibling's.
C21_ChainsParentFirst ==
    /\ fn.pc # "root" => Filters(fn.heap, fn.ipFilterChan) = ParentFirst(<<RootOf>>)
    /\ \A i \in 1..Len(fn.rules) :
          /\ Filters(fn.heap, fn.rules[i].ipFilterChain) = ParentFirst(<<RootOf, RuleOf(i)>>)
          /\ \A j \in 1..Len(fn.rules[i].paths) :
                Filters(fn.heap, fn.rules[i].paths[j])
                    = ParentFirst(<<RootOf, RuleOf(i), PathOf(i, j)>>)
    /\ fn.pc = "path" =>
          /\ Filters(fn.heap, fn.ruleIPFilterChain) = ParentFirst(<<RootOf, RuleOf(fn.i)>>)
          /\ \A j \in 1..Len(fn.paths) :
                Filters(fn.heap, fn.paths[j])
                    = ParentFirst(<<RootOf, RuleOf(fn.i), PathOf(fn.i, j)>>)

\* a snapshot is complete in which the root, both rules and all paths have a filter,
\* so that every chain began on its parent's array and every parent has siblings
C21_Witness ==
    /\ fn.pc = "done"
    /\ ~RootOf.nil
    /\ \A i \in 1..Len(fn.rules) :
          /\ ~RuleOf(i).nil
          /\ \A j \in 1..Len(fn.rules[i].paths) :
                /\ ~PathOf(i, j).nil
                /\ fn.rules[i].paths[j].slice.len = 3

\* request w is between its registry lookup and the return of its handler call
InHandler(w) == rq[w].pc = "invoke" \/ (rq[w].pc = "done" /\ rq[w].handler # "")

\* what holds of the read lock and of the handler in every state: a request that
\* looked the registry up holds the read lock until it returns, the registry still
\* has its backend, the handler it invoked is the one registered there, and only
\* requests inside handleRequestWithCache hold the read lock
LockHeld ==
    \A w \in Workers :
       /\ InHandler(w) =>
             /\ w \in readers
             /\ rq[w].backend \in DOMAIN mapper
             /\ rq[w].handler = mapper[rq[w].backend]
       /\ rq[w].invoked # "" => rq[w].invoked = mapper[rq[w].backend]
       /\ (rq[w].pc = "done" /\ rq[w].code = 503) => w \in readers
       /\ w \in readers => rq[w].pc \in {"invoke", "done"}
       /\ rq[w].pc = "idle" => w \notin readers

\* a step that replaces the registry happens while no request is in its handler,
\* and a request that returns no longer holds the read lock
LockStep ==
    /\ mapper' # mapper => \A w \in Workers : ~InHandler(w) /\ w \notin readers
    /\ \A w \in Workers : (rq[w].pc = "done" /\ rq'[w].pc = "idle") => w \notin readers'

\* C22: setMuxMapper never replaces the registry while a request is between its
\* registry lookup and the end of its handler call; the handler a request invokes
\* is the one registered under its backend in the registry it looked up; the read
\* lock is released on every exit path, the 503 exit included.
C22_RegistryUnderLock ==
    [](LockHeld) /\ [][LockStep]_vars

\* a request has invoked the handler of a backend that only one of the registries
\* has, and still holds the read lock
C22_Witness ==
    \E w \in Workers :
       /\ rq[w].pc = "done"
       /\ rq[w].invoked = "h3"
       /\ w \in readers
       /\ \E m \in Mappers : rq[w].backend \notin DOMAIN m

\* the outcome of a request: its status code, and the backend it was handed to
Outcome(code, backend) == [code |-> code, backend |-> backend]

\* the outcome request w ended with
OutcomeOf(w) == Outcome(rq[w].code, IF rq[w].invoked # "" THEN rq[w].backend ELSE "")

\* the outcome handleRequestWithCache gives item ci for request r
ItemOutcome(ci, r) ==
    IF ~chainAllows(ci, r) THEN Outcome(403, "")
    ELSE IF ci.notFound THEN Outcome(404, "")
    ELSE IF ci.methodNotAllowed THEN Outcome(405, "")
    ELSE IF Deref(ci.path).backend \in DOMAIN mapper
    THEN Outcome(200, Deref(ci.path).backend)
    ELSE Outcome(503, "")

\* the outcome of the full walk of snapshot sid for request r
WalkOutcome(sid, r) ==
    LET res == walk(sid, snaps[sid], r)
    IN  IF res.kind = "ipNotAllow" THEN Outcome(403, "")
        ELSE IF res.kind = "panic" THEN Outcome(0, "")
        ELSE ItemOutcome(res.ci, r)

\* C23 as claimed: a request answered from a cache entry ends with the outcome that
\* the full walk of its snapshot, with the same registry, gives the same request.
C23_Claimed ==
    \A w \in Workers :
        (rq[w].pc = "done" /\ rq[w].hit) =>
            OutcomeOf(w) = WalkOutcome(rq[w].rules, rq[w].req)

\* the places of the log where flush functions were called with complete = true
CompleteCalls == { p \in 1..Len(fn.log) : fn.log[p].ev = "call" /\ fn.log[p].complete }

\* the marks of all registered flush functions, in the order of registration
AllMarks == [k \in 1..fn.nFuncs |-> k]

\* the write at place p of the log is of a piece that went through every flush
\* function in the order of registration, in the calls just before the write
FlushedThenWritten(p) ==
    /\ fn.log[p].by = AllMarks
    /\ p > fn.nFuncs
    /\ \A k \in 1..fn.nFuncs :
          LET c == fn.log[p - fn.nFuncs - 1 + k]
          IN  /\ c.ev = "call" /\ c.func = k /\ c.piece = fn.log[p].piece
              /\ c.by = [m \in 1..(k - 1) |-> m]

\* C24: in flushBody with flush functions registered, every piece read from the body
\* goes through all the functions in the order of registration before it is written;
\* each function is called with complete = true at most once, these calls are the
\* last calls of flush functions and at most one write follows them, and they are
\* made, once per function, whenever there is a body, reading it ends with io.EOF
\* and no write before failed.
C24_FlushCallbacks ==
    fn.nFuncs > 0 =>
       /\ \A p \in 1..Len(fn.log) : fn.log[p].ev = "write" => FlushedThenWritten(p)
       /\ \A i \in 1..fn.read :
             \E p \in 1..Len(fn.log) : fn.log[p].ev = "write" /\ fn.log[p].piece = i
       /\ \A k \in 1..fn.nFuncs :
             Cardinality({ p \in CompleteCalls : fn.log[p].func = k }) <= 1
       /\ \A p \in CompleteCalls, q \in 1..Len(fn.log) :
             (q > p /\ fn.log[q].ev = "call") => fn.log[q].complete
       /\ \A p \in CompleteCalls :
             Cardinality({ q \in 1..Len(fn.log) : q > p /\ fn.log[q].ev = "write" }) <= 1
       /\ (fn.pc = "done" /\ fn.hasBody /\ fn.end = "eof" /\ fn.failAt \notin 1..fn.chunks) =>
             \A k \in 1..fn.nFuncs :
                Cardinality({ p \in CompleteCalls : fn.log[p].func = k }) = 1

\* a body of two full buffers and a last piece went through two flush functions
\* and was written to the client without an error
C24_Witness ==
    /\ fn.pc = "done" /\ fn.nFuncs = 2 /\ fn.chunks = 2 /\ fn.end = "eof"
    /\ fn.failed = "" /\ fn.bodyWritten = 3
    /\ Cardinality(CompleteCalls) = 2

====
